---- MODULE Spec2Model ----
(***************************************************************************)
(* Cash ledger, bounded change engine and purchase flow of the vending     *)
(* machine (src/VendingMachinePro.py).  Python dicts are modelled as       *)
(* functions whose DOMAIN is the set of keys, so that an absent key and a  *)
(* key holding 0 are different ledgers, as they are in the program.        *)
(***************************************************************************)
EXTENDS Integers, Sequences, FiniteSets, TLC

(* ------------------------------ bounds -------------------------------- *)
\* the change engine is applied to amounts -1 .. MaxAmt
MaxAmt == 12
\* ... over ledgers holding at most FnMaxUnits units of a denomination
FnMaxUnits == 3
\* ... of the FnNumDenoms smallest catalogue denominations
FnNumDenoms == 3

\* the ledger holds at most MaxCount units of a denomination
MaxCount == 2
\* products cost 1 .. MaxPrice
MaxPrice == 3

\* payers insert the NumDenoms smallest catalogue denominations
NumDenoms == 3
\* a product starts with at most MaxStock units
MaxStock == 2

(* ------------------------- denomination catalog ------------------------ *)
COINS == <<1, 2, 5, 10>>
NOTES == <<20, 50, 100, 500, 1000>>
DENOMINATIONS == COINS \o NOTES

valid_money == {DENOMINATIONS[i] : i \in 1..Len(DENOMINATIONS)}

(* ------------------------------ dicts ---------------------------------- *)
EmptyDict == [k \in {} |-> 0]

\* d.get(k, default)
Get(d, k, default) == IF k \in DOMAIN d THEN d[k] ELSE default

\* d[k] = v
Put(d, k, v) == [x \in (DOMAIN d) \cup {k} |-> IF x = k THEN v ELSE d[x]]

\* Optional[Dict]: None, or a dict
None == [some |-> FALSE, val |-> EmptyDict]
Some(c) == [some |-> TRUE, val |-> c]

MinOf(S) == CHOOSE x \in S : \A y \in S : x <= y

RECURSIVE SumOver(_, _)
SumOver(d, keys) ==
    IF keys = {} THEN 0
    ELSE LET k == MinOf(keys) IN d[k] + SumOver(d, keys \ {k})

\* sum(d.values())
SumValues(d) == SumOver(d, DOMAIN d)

RECURSIVE FaceOver(_, _)
FaceOver(d, keys) ==
    IF keys = {} THEN 0
    ELSE LET k == MinOf(keys) IN k * d[k] + FaceOver(d, keys \ {k})

\* face value of a dict of units: sum of denom * count
FaceValue(d) == FaceOver(d, DOMAIN d)

(* ---------------------------- change engine ---------------------------- *)
\* dp[0] = {} from line 93 on and is never written again.  The loops below
\* read it first, so that dp is evaluated where each loop starts and not as
\* one nested expression when the last loop ends.
Started(dp) == dp[0].some

\* a scan step that keeps the first combination found for a sub-amount
ScanStepKeepFirst(dp, denom, a) ==
    IF dp[a - denom].some /\ ~dp[a].some
    THEN LET prev_combo == dp[a - denom].val
         IN  [dp EXCEPT ![a] = Some(Put(prev_combo, denom, Get(prev_combo, denom, 0) + 1))]
    ELSE dp

\* a scan step that also replaces a combination of the same size
ScanStepReplaceOnTie(dp, denom, a) ==
    IF dp[a - denom].some
    THEN LET prev_combo == dp[a - denom].val
             candidate  == Put(prev_combo, denom, Get(prev_combo, denom, 0) + 1)
         IN  IF ~dp[a].some \/ SumValues(candidate) <= SumValues(dp[a].val)
             THEN [dp EXCEPT ![a] = Some(candidate)]
             ELSE dp
    ELSE dp

\* one execution of the body of "for a in range(amt, denom - 1, -1)"
ScanStep(dp, denom, a) ==
    IF dp[a - denom].some
    THEN LET prev_combo == dp[a - denom].val
             candidate  == Put(prev_combo, denom, Get(prev_combo, denom, 0) + 1)
         IN  IF ~dp[a].some
             THEN [dp EXCEPT ![a] = Some(candidate)]
             ELSE IF SumValues(candidate) < SumValues(dp[a].val)
                  THEN [dp EXCEPT ![a] = Some(candidate)]
                  ELSE dp
    ELSE dp

\* a scan that runs upward, from denom to amt
RECURSIVE ScanUpFrom(_, _, _, _)
ScanUpFrom(dp, denom, a, amt) ==
    IF ~Started(dp) \/ a > amt THEN dp
    ELSE ScanUpFrom(ScanStep(dp, denom, a), denom, a + 1, amt)

ScanAmountsUpward(dp, denom, a) == ScanUpFrom(dp, denom, denom, a)

\* for a in range(amt, denom - 1, -1): the scan runs downward from a
RECURSIVE ScanAmounts(_, _, _)
ScanAmounts(dp, denom, a) ==
    IF ~Started(dp) \/ a < denom THEN dp
    ELSE ScanAmounts(ScanStep(dp, denom, a), denom, a - 1)

\* a unit loop that passes over a denomination once, whatever its count
UnitLoopOnce(dp, denom, n, amt) ==
    IF ~Started(dp) \/ n <= 0 THEN dp ELSE ScanAmounts(dp, denom, amt)

\* for _ in range(count)
RECURSIVE UnitLoop(_, _, _, _)
UnitLoop(dp, denom, n, amt) ==
    IF ~Started(dp) \/ n <= 0 THEN dp
    ELSE UnitLoop(ScanAmounts(dp, denom, amt), denom, n - 1, amt)

\* for denom in sorted(available.keys())
RECURSIVE DenomLoop(_, _, _, _)
DenomLoop(dp, keys, available, amt) ==
    IF ~Started(dp) \/ keys = {} THEN dp
    ELSE LET denom == MinOf(keys)
             count == IF Get(available, denom, 0) > 0
                      THEN Get(available, denom, 0) ELSE 0
         IN  DenomLoop(UnitLoop(dp, denom, count, amt),
                       keys \ {denom}, available, amt)

bounded_min_items_change(amt, available) ==
    IF amt < 0 THEN None
    ELSE IF amt = 0 THEN Some(EmptyDict)
    ELSE LET dp0 == [a \in 0..amt |-> IF a = 0 THEN Some(EmptyDict) ELSE None]
         IN  DenomLoop(dp0, DOMAIN available, available, amt)[amt]

(* -------------------- the greedy engines of the forks ------------------- *)
\* a while loop that takes units without looking at the stock
take_units_unstocked(amt, denom, available) ==
    IF amt >= denom THEN amt \div denom ELSE 0

\* VendingMachine.py: while amt >= denom and available > 0, one unit a turn;
\* the value is count when the loop ends
RECURSIVE take_units(_, _, _)
take_units(amt, denom, available) ==
    IF amt >= denom /\ available > 0
    THEN 1 + take_units(amt - denom, denom, available - 1)
    ELSE 0

\* VendingMachine.py _calc_change: for denom in sorted(DENOMINATIONS,
\* reverse=True), from the denomination at index i down; change is returned
\* only when the amount is used up
RECURSIVE calc_change_while_from(_, _, _, _)
calc_change_while_from(i, amt, temp_cash, change) ==
    IF i = 0 THEN IF amt = 0 THEN Some(change) ELSE None
    ELSE LET denom == DENOMINATIONS[i]
             count == take_units(amt, denom, Get(temp_cash, denom, 0))
         IN  IF count > 0
             THEN calc_change_while_from(
                      i - 1, amt - denom * count,
                      Put(temp_cash, denom, Get(temp_cash, denom, 0) - count),
                      Put(change, denom, count))
             ELSE calc_change_while_from(i - 1, amt, temp_cash, change)

calc_change_while(amt, c) ==
    calc_change_while_from(Len(DENOMINATIONS), amt, c, EmptyDict)

\* projectmidterm.py _calc_change: count = min(amt // denom, stock)
RECURSIVE calc_change_min_from(_, _, _, _)
calc_change_min_from(i, amt, temp_cash, change) ==
    IF i = 0 THEN IF amt = 0 THEN Some(change) ELSE None
    ELSE LET denom == DENOMINATIONS[i]
             count == MinOf({amt \div denom, Get(temp_cash, denom, 0)})
         IN  IF count > 0
             THEN calc_change_min_from(
                      i - 1, amt - denom * count,
                      Put(temp_cash, denom, temp_cash[denom] - count),
                      Put(change, denom, count))
             ELSE calc_change_min_from(i - 1, amt, temp_cash, change)

calc_change_min(amt, c) ==
    calc_change_min_from(Len(DENOMINATIONS), amt, c, EmptyDict)

(* ------------------------------ Product -------------------------------- *)
\* a constructor that does not look at the price
Product_init_any_price(name, price, stock) ==
    [raised |-> (name = "" \/ stock < 0),
     val |-> [name |-> name, price |-> price, stock |-> stock]]

\* Product.__init__: whether it raises ValueError, and the product otherwise
Product_init(name, price, stock) ==
    [raised |-> (name = "" \/ price <= 0 \/ stock < 0),
     val |-> [name |-> name, price |-> price, stock |-> stock]]

\* an availability test that lets an empty slot through
is_available_at_zero(p) == p.stock >= 0

\* Product.is_available
is_available(p) == p.stock > 0

\* a buy that does not ask whether the product is available
buy_unchecked(p) == [p EXCEPT !.stock = p.stock - 1]

\* Product.buy: the product afterwards
buy(p) == IF is_available(p) THEN [p EXCEPT !.stock = p.stock - 1] ELSE p

\* Product.buy: the bool it returns
buy_returns(p) == is_available(p)

(* ------------------------------ CashMgr -------------------------------- *)
\* an add that does not look at the sign of count
add_any_count(c, denom, count) ==
    IF denom \in valid_money
    THEN Put(c, denom, Get(c, denom, 0) + count)
    ELSE c

\* CashMgr.add: the ledger afterwards
add(c, denom, count) ==
    IF denom \in valid_money /\ count >= 0
    THEN Put(c, denom, Get(c, denom, 0) + count)
    ELSE c

\* a remove that clamps at zero instead of raising
remove_clamps(c, denom, count) ==
    LET current == Get(c, denom, 0)
    IN  [raised |-> FALSE,
         cash |-> Put(c, denom, IF count > current THEN 0 ELSE current - count)]

\* CashMgr.remove: whether it raises, and the ledger afterwards
remove(c, denom, count) ==
    IF count < 0 THEN [raised |-> TRUE, cash |-> c]
    ELSE LET current == Get(c, denom, 0)
         IN  IF count > current THEN [raised |-> TRUE, cash |-> c]
             ELSE [raised |-> FALSE, cash |-> Put(c, denom, current - count)]

\* dict(m): a new dict with the keys and values of m
dict(m) == [k \in DOMAIN m |-> m[k]]

\* CashMgr.snapshot: the value returned
snapshot(c) == dict(c)

\* a snapshot that hands out the ledger itself
snapshot_returns_ledger(c) == TRUE

\* CashMgr.snapshot: whether the dict returned is the ledger itself;
\* dict(self.cash) builds a new dict
snapshot_shares(c) == FALSE

\* CashMgr.restore: whether the ledger afterwards is the dict passed in;
\* self.cash = dict(snap) binds the ledger to a new dict
restore_shares(snap) == FALSE

\* a restore that writes the snapshot over the ledger, keeping other keys
restore_updates(c, snap) ==
    [k \in (DOMAIN c) \cup (DOMAIN snap) |-> IF k \in DOMAIN snap THEN snap[k] ELSE c[k]]

\* a restore that leaves the ledger as it finds it
restore_keeps_ledger(c, snap) == c

\* CashMgr.restore: the ledger afterwards
restore(c, snap) == dict(snap)


\* for d, c in combo.items(): self.remove(d, c) -- stops where remove raises
RECURSIVE RemoveAll(_, _, _)
RemoveAll(c, combo, keys) ==
    IF keys = {} THEN [raised |-> FALSE, cash |-> c]
    ELSE LET d == MinOf(keys)
             r == remove(c, d, combo[d])
         IN  IF r.raised THEN r ELSE RemoveAll(r.cash, combo, keys \ {d})

\* a make_change that names the change and leaves it in the ledger
make_change_keeps_units(c, amt) ==
    IF amt = 0 THEN [ret |-> Some(EmptyDict), cash |-> c, raised |-> FALSE]
    ELSE [ret |-> bounded_min_items_change(amt, c), cash |-> c,
          raised |-> FALSE]

\* CashMgr.make_change: the value returned, the ledger afterwards, and
\* whether an exception left the method
make_change(c, amt) ==
    IF amt = 0 THEN [ret |-> Some(EmptyDict), cash |-> c, raised |-> FALSE]
    ELSE LET combo == bounded_min_items_change(amt, c)
         IN  IF ~combo.some
             THEN [ret |-> None, cash |-> c, raised |-> FALSE]
             ELSE LET r == RemoveAll(c, combo.val, DOMAIN combo.val)
                  IN  [ret |-> combo, cash |-> r.cash, raised |-> r.raised]

\* a can_change that takes the change out of the ledger
can_change_commits(c, amt) ==
    IF amt < 0 THEN [ret |-> FALSE, cash |-> c]
    ELSE [ret |-> make_change(c, amt).ret.some, cash |-> make_change(c, amt).cash]

\* CashMgr.can_change: the value returned and the ledger afterwards
can_change(c, amt) ==
    IF amt < 0 THEN [ret |-> FALSE, cash |-> c]
    ELSE [ret |-> bounded_min_items_change(amt, c).some, cash |-> c]

\* CashMgr.show_change: the entries it prints, those of the coins and those
\* of the notes
show_change(change) ==
    [d \in {k \in DOMAIN change : k \in valid_money} |-> change[d]]

(* ------------------------------ FileMgr -------------------------------- *)
\* FileMgr.load_goods: a product for every line that Product accepts; a line
\* that makes Product raise ValueError is skipped
load_goods(file) ==
    [s \in {k \in DOMAIN file :
                ~Product_init(file[k].name, file[k].price, file[k].stock).raised}
        |-> Product_init(file[s].name, file[s].price, file[s].stock).val]

\* FileMgr.save_goods: one line num,name,price,stock for every product
save_goods(prods) ==
    [s \in DOMAIN prods |->
        [name |-> prods[s].name, price |-> prods[s].price,
         stock |-> prods[s].stock]]

\* FileMgr.load_wallet: the lines whose denomination is in the catalogue and
\* whose count is not negative
load_wallet(file) ==
    [d \in {k \in DOMAIN file : k \in valid_money /\ file[k] >= 0} |-> file[d]]

\* FileMgr.save_wallet: one line denom,count for every key of the ledger
save_wallet(c) == [d \in DOMAIN c |-> c[d]]

(* --------------------------- VendingMachine ---------------------------- *)
\* for denom, count in inserted_money.items(): self.cash_mgr.add(denom, count)
RECURSIVE AddAll(_, _, _)
AddAll(c, inserted_money, keys) ==
    IF keys = {} THEN c
    ELSE LET d == MinOf(keys)
         IN  AddAll(add(c, d, inserted_money[d]), inserted_money, keys \ {d})

\* a settlement that does not restore the ledger when no change can be given
settle_keeps_payment(c, product, total_paid, inserted_money) ==
    LET change_amount == total_paid - product.price
        c1   == AddAll(c, inserted_money, DOMAIN inserted_money)
        mc   == IF change_amount > 0 THEN make_change(c1, change_amount)
                ELSE [ret |-> Some(EmptyDict), cash |-> c1, raised |-> FALSE]
        change_detail == IF mc.ret.some THEN mc.ret.val ELSE EmptyDict
    IN  IF mc.raised
        THEN [end |-> "Raised", cash |-> mc.cash, product |-> product,
              change |-> EmptyDict]
        ELSE IF change_amount > 0 /\ change_detail = EmptyDict
        THEN [end |-> "RolledBack", cash |-> mc.cash,
              product |-> product, change |-> EmptyDict]
        ELSE [end |-> "Committed", cash |-> mc.cash, product |-> buy(product),
              change |-> change_detail]

\* a settlement that looks for the change before it takes the payment in
settle_change_first(c, product, total_paid, inserted_money) ==
    LET change_amount == total_paid - product.price
        snap == snapshot(c)
        mc   == IF change_amount > 0 THEN make_change(c, change_amount)
                ELSE [ret |-> Some(EmptyDict), cash |-> c, raised |-> FALSE]
        c1   == AddAll(mc.cash, inserted_money, DOMAIN inserted_money)
        change_detail == IF mc.ret.some THEN mc.ret.val ELSE EmptyDict
    IN  IF mc.raised
        THEN [end |-> "Raised", cash |-> c1, product |-> product,
              change |-> EmptyDict]
        ELSE IF change_amount > 0 /\ change_detail = EmptyDict
        THEN [end |-> "RolledBack", cash |-> restore(c1, snap),
              product |-> product, change |-> EmptyDict]
        ELSE [end |-> "Committed", cash |-> c1, product |-> buy(product),
              change |-> change_detail]

\* a settlement that takes an empty change for a failure, whatever is owed
settle_needs_change(c, product, total_paid, inserted_money) ==
    LET change_amount == total_paid - product.price
        snap == snapshot(c)
        c1   == AddAll(c, inserted_money, DOMAIN inserted_money)
        mc   == IF change_amount > 0 THEN make_change(c1, change_amount)
                ELSE [ret |-> Some(EmptyDict), cash |-> c1, raised |-> FALSE]
        change_detail == IF mc.ret.some THEN mc.ret.val ELSE EmptyDict
    IN  IF mc.raised
        THEN [end |-> "Raised", cash |-> mc.cash, product |-> product,
              change |-> EmptyDict]
        ELSE IF change_detail = EmptyDict
        THEN [end |-> "RolledBack", cash |-> restore(mc.cash, snap),
              product |-> product, change |-> EmptyDict]
        ELSE [end |-> "Committed", cash |-> mc.cash, product |-> buy(product),
              change |-> change_detail]

\* process_purchase from "change_amount = total_paid - product.price" to its
\* return: the ledger and the product afterwards, the change handed out and
\* how the call ended
settle(c, product, total_paid, inserted_money) ==
    LET change_amount == total_paid - product.price
        snap == snapshot(c)
        c1   == AddAll(c, inserted_money, DOMAIN inserted_money)
        mc   == IF change_amount > 0 THEN make_change(c1, change_amount)
                ELSE [ret |-> Some(EmptyDict), cash |-> c1, raised |-> FALSE]
        change_detail == IF mc.ret.some THEN mc.ret.val ELSE EmptyDict
    IN  IF mc.raised
        THEN [end |-> "Raised", cash |-> mc.cash, product |-> product,
              change |-> EmptyDict]
        ELSE IF change_amount > 0 /\ change_detail = EmptyDict
        THEN [end |-> "RolledBack", cash |-> restore(mc.cash, snap),
              product |-> product, change |-> EmptyDict]
        ELSE [end |-> "Committed", cash |-> mc.cash, product |-> buy(product),
              change |-> change_detail]

(* ------------------------------- state --------------------------------- *)
VARIABLES
    cash,           \* CashMgr.cash: the ledger, {denom: count}
    products,       \* VendingMachine.products: slot -> product
    pc,             \* where the purchase in progress stands
    slot,           \* the slot chosen in buy_menu
    total,          \* collect_payment: total
    inserted,       \* collect_payment: inserted
    outcome,        \* how the last call of process_purchase ended
    change_detail,  \* process_purchase: change_detail
    pre_cash,       \* the ledger when process_purchase was called
    pre_products,   \* the products when process_purchase was called
    last_input,     \* what collect_payment made of the last thing typed
    refund,         \* the money process_purchase has shown as refunded
    saving,         \* the write of save_data that comes next
    goods_file,     \* Goods.txt: slot -> the fields of its line
    wallet_file,    \* Wallet.txt: denom -> count
    typed,          \* what the last maintenance screen was given
    variant,        \* the program that runs
    held,           \* the snapshot a caller of CashMgr holds
    shared,         \* whether that dict and the ledger are one object
    op, arg,        \* the last CashMgr method called, and its arguments
    err,            \* whether that call raised
    ret,            \* the dict (or None) that call returned
    answer,         \* the bool that call returned
    fn_pc, fn_amt, fn_available, fn_result,
    fn_greedy,      \* what the two greedy engines return for the same call
    fn_dp,          \* _bounded_min_items_change: dp
    fn_keys,        \* the keys of available the outer loop has yet to visit
    fn_denom,       \* the outer loop's denom
    fn_left         \* how many turns of "for _ in range(count)" remain

machine_vars == <<products, pc, slot, total, inserted, outcome, change_detail,
                  pre_cash, pre_products, last_input, refund, saving,
                  goods_file, wallet_file, typed, variant>>
harness_vars == <<held, shared, op, arg, err, ret, answer>>
fn_loop == <<fn_dp, fn_keys, fn_denom, fn_left>>
fn_vars == <<fn_pc, fn_amt, fn_available, fn_result, fn_greedy, fn_loop>>
vars == <<cash, machine_vars, harness_vars, fn_vars>>

\* no maintenance screen has been used
NothingTyped == [by |-> "none", entries |-> EmptyDict, rejected |-> "none"]

\* the parts of the state a specification does not use stay as they are here
MachineOff ==
    /\ products = EmptyDict
    /\ pc = "Off"
    /\ slot = 0
    /\ total = 0
    /\ inserted = EmptyDict
    /\ outcome = "none"
    /\ change_detail = EmptyDict
    /\ pre_cash = EmptyDict
    /\ pre_products = EmptyDict
    /\ last_input = "none"
    /\ refund = None
    /\ saving = "none"
    /\ goods_file = EmptyDict
    /\ wallet_file = EmptyDict
    /\ typed = NothingTyped
    /\ variant = "none"

HarnessOff ==
    /\ held = None
    /\ shared = FALSE
    /\ op = "none"
    /\ arg = <<0, 0>>
    /\ err = FALSE
    /\ ret = None
    /\ answer = FALSE

\* the locals of _bounded_min_items_change before its loops start
LoopOff ==
    /\ fn_dp = <<>>
    /\ fn_keys = {}
    /\ fn_denom = 0
    /\ fn_left = 0

NoGreedy == [while |-> None, min |-> None]

FnOff ==
    /\ fn_pc = "off"
    /\ fn_amt = 0
    /\ fn_available = EmptyDict
    /\ fn_result = None
    /\ fn_greedy = NoGreedy
    /\ LoopOff

\* every dict with keys among S and counts 0 .. n
DictsOver(S, n) == UNION {[K -> 0..n] : K \in SUBSET S}

(* --------------------- CashMgr called from outside --------------------- *)
\* a value that is no denomination of the catalogue
BadDenom == 3

\* callers of CashMgr use the two smallest denominations of the catalogue
ApiDenoms == {DENOMINATIONS[i] : i \in {1, 2}}

Capped(c) == \A d \in DOMAIN c : c[d] <= MaxCount

\* collect_payment when the payer does not cancel: every (total, inserted)
\* the loop can return, from the loop's state (total, inserted_money)
RECURSIVE collect_payment(_, _, _, _)
collect_payment(price, total_paid, inserted_money, denoms) ==
    IF ~(total_paid < price)
    THEN {[total |-> total_paid, inserted |-> inserted_money]}
    ELSE UNION {collect_payment(price, total_paid + amount,
                    Put(inserted_money, amount, Get(inserted_money, amount, 0) + 1),
                    denoms) : amount \in denoms \cap valid_money}

\* ---- the methods, as steps of a program that calls them; a is what the
\* ---- step records of its arguments
call_add(denom, count, a) ==
    /\ cash' = add(cash, denom, count)
    /\ Capped(cash')
    /\ op' = "add"
    /\ arg' = a
    /\ err' = FALSE
    /\ ret' = None
    /\ answer' = FALSE

call_remove(denom, count, a) ==
    /\ LET r == remove(cash, denom, count)
       IN  cash' = r.cash /\ err' = r.raised
    /\ op' = "remove"
    /\ arg' = a
    /\ ret' = None
    /\ answer' = FALSE

call_can_change(amt, a) ==
    /\ LET r == can_change(cash, amt)
       IN  cash' = r.cash /\ answer' = r.ret
    /\ op' = "can_change"
    /\ arg' = a
    /\ err' = FALSE
    /\ ret' = None

call_make_change(amt, a) ==
    /\ LET r == make_change(cash, amt)
       IN  cash' = r.cash /\ ret' = r.ret /\ err' = r.raised
    /\ op' = "make_change"
    /\ arg' = a
    /\ answer' = FALSE

\* process_purchase of an available product, from call to return
call_process_purchase(price, paid, a) ==
    LET r == settle(cash, [name |-> "cola", price |-> price, stock |-> 1], paid.total, paid.inserted)
    IN  /\ cash' = r.cash
        /\ Capped(cash')
        /\ op' = "process_purchase"
        /\ arg' = a
        /\ err' = (r.end = "Raised")
        /\ ret' = Some(r.change)
        /\ answer' = (r.end = "Committed")

call_snapshot ==
    /\ held' = Some(snapshot(cash))
    /\ op' = "snapshot"
    /\ arg' = <<0, 0>>
    /\ err' = FALSE
    /\ ret' = held'
    /\ answer' = FALSE
    /\ UNCHANGED cash

call_restore ==
    /\ held.some
    /\ cash' = restore(cash, held.val)
    /\ op' = "restore"
    /\ arg' = <<0, 0>>
    /\ err' = FALSE
    /\ ret' = None
    /\ answer' = FALSE
    /\ UNCHANGED held

ApiInputDenoms == ApiDenoms \cup {BadDenom}
ApiInputCounts == -1..MaxCount + 1
ApiInputAmounts == -1..MaxPrice

LedgerInit ==
    /\ MachineOff
    /\ FnOff
    /\ HarnessOff
    /\ cash \in DictsOver(ApiDenoms, MaxCount)

\* ---- SpecLedger: single calls of add, remove, can_change, make_change and
\* ---- process_purchase, each recorded with its arguments
api_add ==
    /\ \E d \in ApiInputDenoms, c \in ApiInputCounts : call_add(d, c, <<d, c>>)
    /\ UNCHANGED <<held, shared, machine_vars, fn_vars>>

api_remove ==
    /\ \E d \in ApiInputDenoms, c \in ApiInputCounts : call_remove(d, c, <<d, c>>)
    /\ UNCHANGED <<held, shared, machine_vars, fn_vars>>

api_can_change ==
    /\ \E amt \in ApiInputAmounts : call_can_change(amt, <<amt, 0>>)
    /\ UNCHANGED <<held, shared, machine_vars, fn_vars>>

api_make_change ==
    /\ \E amt \in ApiInputAmounts : call_make_change(amt, <<amt, 0>>)
    /\ UNCHANGED <<held, shared, machine_vars, fn_vars>>

api_process_purchase ==
    /\ \E price \in 1..MaxPrice :
         \E paid \in collect_payment(price, 0, EmptyDict, ApiDenoms) :
            call_process_purchase(price, paid, <<price, paid.total>>)
    /\ UNCHANGED <<held, shared, machine_vars, fn_vars>>

LedgerNext ==
    \/ api_add
    \/ api_remove
    \/ api_can_change
    \/ api_make_change
    \/ api_process_purchase

SpecLedger == LedgerInit /\ [][LedgerNext]_vars

\* ---- SpecSnapshot: the same calls in any order with snapshot and restore
\* ---- among them; the arguments are not recorded
tx_add ==
    /\ \E d \in ApiInputDenoms, c \in ApiInputCounts : call_add(d, c, <<0, 0>>)
    /\ UNCHANGED <<held, shared, machine_vars, fn_vars>>

tx_remove ==
    /\ \E d \in ApiInputDenoms, c \in ApiInputCounts : call_remove(d, c, <<0, 0>>)
    /\ UNCHANGED <<held, shared, machine_vars, fn_vars>>

tx_can_change ==
    /\ \E amt \in ApiInputAmounts : call_can_change(amt, <<0, 0>>)
    /\ UNCHANGED <<held, shared, machine_vars, fn_vars>>

tx_make_change ==
    /\ \E amt \in ApiInputAmounts : call_make_change(amt, <<0, 0>>)
    /\ UNCHANGED <<held, shared, machine_vars, fn_vars>>

tx_process_purchase ==
    /\ \E price \in 1..MaxPrice :
         \E paid \in collect_payment(price, 0, EmptyDict, ApiDenoms) :
            call_process_purchase(price, paid, <<0, 0>>)
    /\ UNCHANGED <<held, shared, machine_vars, fn_vars>>

tx_snapshot == call_snapshot /\ UNCHANGED <<shared, machine_vars, fn_vars>>

tx_restore == call_restore /\ UNCHANGED <<shared, machine_vars, fn_vars>>

SnapshotNext ==
    \/ tx_add
    \/ tx_remove
    \/ tx_can_change
    \/ tx_make_change
    \/ tx_process_purchase
    \/ tx_snapshot
    \/ tx_restore

SpecSnapshot == LedgerInit /\ [][SnapshotNext]_vars

\* ---- SpecAlias: a caller that keeps the dict snapshot gave it, lets the
\* ---- ledger change, and writes into the dict it keeps.  A write into a
\* ---- dict is seen through every name bound to it.
SeenThroughHeld == held' = IF shared THEN Some(cash') ELSE held

own_add ==
    /\ \E d \in ApiInputDenoms, c \in ApiInputCounts : call_add(d, c, <<0, 0>>)
    /\ SeenThroughHeld
    /\ UNCHANGED <<shared, machine_vars, fn_vars>>

own_remove ==
    /\ \E d \in ApiInputDenoms, c \in ApiInputCounts : call_remove(d, c, <<0, 0>>)
    /\ SeenThroughHeld
    /\ UNCHANGED <<shared, machine_vars, fn_vars>>

own_make_change ==
    /\ \E amt \in ApiInputAmounts : call_make_change(amt, <<0, 0>>)
    /\ SeenThroughHeld
    /\ UNCHANGED <<shared, machine_vars, fn_vars>>

own_snapshot ==
    /\ call_snapshot
    /\ shared' = snapshot_shares(cash)
    /\ UNCHANGED <<machine_vars, fn_vars>>

own_restore ==
    /\ call_restore
    /\ shared' = restore_shares(held.val)
    /\ UNCHANGED <<machine_vars, fn_vars>>

\* the caller writes a count into the dict it holds
caller_writes ==
    /\ held.some
    /\ \E d \in ApiDenoms, n \in 0..MaxCount :
          held' = Some(Put(held.val, d, n))
    /\ cash' = IF shared THEN held'.val ELSE cash
    /\ op' = "caller_writes"
    /\ arg' = <<0, 0>>
    /\ err' = FALSE
    /\ ret' = None
    /\ answer' = FALSE
    /\ UNCHANGED <<shared, machine_vars, fn_vars>>

AliasNext ==
    \/ own_add
    \/ own_remove
    \/ own_make_change
    \/ own_snapshot
    \/ own_restore
    \/ caller_writes

SpecAlias == LedgerInit /\ [][AliasNext]_vars

(* -------------------------- the purchase flow -------------------------- *)
\* the slots of the catalogue
SLOTS == {1}

PayDenoms == {DENOMINATIONS[i] : i \in 1..NumDenoms}

\* what a payer may type as an amount: a denomination or some other number
PayInputs == PayDenoms \cup {BadDenom}

\* the names typed for a product: none, or one
NAMES == {"", "cola"}

\* the lines of Goods.txt, and what setup_goods is given for the slots: for
\* every slot nothing, or a name, a price and a stock of any sign
GoodsEntries ==
    UNION {[K -> [name : NAMES, price : 0..MaxPrice, stock : -1..MaxStock]] :
              K \in SUBSET SLOTS}

\* VendingMachine.__init__: load_data reads the products from Goods.txt and
\* the ledger from Wallet.txt
Init ==
    /\ HarnessOff
    /\ FnOff
    /\ goods_file \in GoodsEntries
    /\ wallet_file \in DictsOver(PayDenoms, MaxCount)
    /\ products = load_goods(goods_file)
    /\ cash = load_wallet(wallet_file)
    /\ pc = "Idle"
    /\ slot = 0
    /\ total = 0
    /\ inserted = EmptyDict
    /\ outcome = "none"
    /\ change_detail = EmptyDict
    /\ pre_cash = EmptyDict
    /\ pre_products = EmptyDict
    /\ last_input = "none"
    /\ refund = None
    /\ saving = "none"
    /\ typed = NothingTyped
    /\ variant = "VendingMachinePro"

\* a loop that goes on while the total has not passed the price
keeps_collecting_at_price(total_paid, price) == total_paid <= price

\* a loop that stops one short of the price
keeps_collecting_one_short(total_paid, price) == total_paid + 1 < price

\* collect_payment: the test of its loop
keeps_collecting(total_paid, price) == total_paid < price

\* buy_menu hands a configured slot to process_purchase, which returns at
\* once when the product is out of stock and starts collect_payment otherwise
select_product(s) ==
    /\ pc = "Idle"
    /\ saving = "none"
    /\ s \in DOMAIN products
    /\ slot' = s
    /\ pre_cash' = cash
    /\ pre_products' = products
    /\ total' = 0
    /\ inserted' = EmptyDict
    /\ change_detail' = EmptyDict
    /\ last_input' = "none"
    /\ refund' = None
    /\ typed' = NothingTyped
    /\ IF ~is_available(products[s])
       THEN pc' = "Idle" /\ outcome' = "OutOfStock"
       ELSE /\ pc' = IF keeps_collecting(0, products[s].price)
                      THEN "CollectingPayment" ELSE "Evaluating"
            /\ outcome' = "none"
    /\ UNCHANGED <<cash, products, saving, goods_file, wallet_file,
                   variant, harness_vars, fn_vars>>

\* a turn of the loop that drops the money into the ledger at once
collect_into_ledger(amount) ==
    /\ pc = "CollectingPayment"
    /\ keeps_collecting(total, products[slot].price)
    /\ IF amount \in valid_money
       THEN /\ inserted' = Put(inserted, amount, Get(inserted, amount, 0) + 1)
            /\ total' = total + amount
            /\ cash' = add(cash, amount, 1)
            /\ last_input' = "accepted"
       ELSE /\ UNCHANGED <<inserted, total, cash>>
            /\ last_input' = "invalid_denomination"
    /\ pc' = IF keeps_collecting(total', products[slot].price)
             THEN "CollectingPayment" ELSE "Evaluating"
    /\ UNCHANGED <<products, slot, outcome, change_detail, pre_cash,
                   pre_products, refund, saving, goods_file, wallet_file,
                   typed, variant, harness_vars, fn_vars>>

\* a turn of the loop that reports a number outside the catalogue and keeps
\* it all the same
collect_keeps_rejected(amount) ==
    /\ pc = "CollectingPayment"
    /\ keeps_collecting(total, products[slot].price)
    /\ inserted' = Put(inserted, amount, Get(inserted, amount, 0) + 1)
    /\ total' = total + amount
    /\ last_input' = IF amount \in valid_money
                      THEN "accepted" ELSE "invalid_denomination"
    /\ pc' = IF keeps_collecting(total', products[slot].price)
             THEN "CollectingPayment" ELSE "Evaluating"
    /\ UNCHANGED <<cash, products, slot, outcome, change_detail, pre_cash,
                   pre_products, refund, saving, goods_file, wallet_file,
                   typed, variant, harness_vars, fn_vars>>

\* one turn of the loop of collect_payment on a number typed by the payer
collect_step(amount) ==
    /\ pc = "CollectingPayment"
    /\ keeps_collecting(total, products[slot].price)
    /\ IF amount \in valid_money
       THEN /\ inserted' = Put(inserted, amount, Get(inserted, amount, 0) + 1)
            /\ total' = total + amount
            /\ last_input' = "accepted"
       ELSE /\ UNCHANGED <<inserted, total>>
            /\ last_input' = "invalid_denomination"
    /\ pc' = IF keeps_collecting(total', products[slot].price)
             THEN "CollectingPayment" ELSE "Evaluating"
    /\ UNCHANGED <<cash, products, slot, outcome, change_detail, pre_cash,
                   pre_products, refund, saving, goods_file, wallet_file,
                   typed, variant, harness_vars, fn_vars>>

\* the payer types a number; the machine holds at most MaxCount units of a
\* denomination, the money being inserted included
insert_money(amount) ==
    /\ amount \in valid_money =>
           Get(cash, amount, 0) + Get(inserted, amount, 0) < MaxCount
    /\ collect_step(amount)

\* the payer types something that is no number and not 'c': int() raises
\* ValueError, which the loop catches
type_text ==
    /\ pc = "CollectingPayment"
    /\ keeps_collecting(total, products[slot].price)
    /\ last_input' = "not_a_number"
    /\ UNCHANGED <<cash, products, pc, slot, total, inserted, outcome,
                   change_detail, pre_cash, pre_products, refund, saving,
                   goods_file, wallet_file, typed, variant, harness_vars,
                   fn_vars>>

\* a 'c' that the loop takes for text and answers with a new prompt
cancel_prompts_again ==
    /\ pc = "CollectingPayment"
    /\ keeps_collecting(total, products[slot].price)
    /\ last_input' = "not_a_number"
    /\ UNCHANGED <<cash, products, pc, slot, total, inserted, outcome,
                   change_detail, pre_cash, pre_products, refund, saving,
                   goods_file, wallet_file, typed, variant, harness_vars,
                   fn_vars>>

\* the payer types 'c': collect_payment prints "no money was taken", which
\* reports that nothing is handed back, and returns (None, None); then
\* process_purchase returns False
cancel ==
    /\ pc = "CollectingPayment"
    /\ keeps_collecting(total, products[slot].price)
    /\ pc' = "Idle"
    /\ outcome' = "UserCancelled"
    /\ refund' = Some(EmptyDict)
    /\ UNCHANGED <<cash, products, slot, total, inserted, change_detail,
                   pre_cash, pre_products, last_input, saving, goods_file,
                   wallet_file, typed, variant, harness_vars, fn_vars>>

\* process_purchase once collect_payment has returned the payment; when no
\* change can be given it shows the inserted money as refunded
evaluate ==
    /\ pc = "Evaluating"
    /\ LET r == settle(cash, products[slot], total, inserted)
       IN  /\ cash' = r.cash
           /\ products' = [products EXCEPT ![slot] = r.product]
           /\ change_detail' = r.change
           /\ refund' = IF r.end = "RolledBack"
                        THEN Some(show_change(inserted)) ELSE None
           /\ pc' = r.end
    /\ UNCHANGED <<slot, total, inserted, outcome, pre_cash, pre_products,
                   last_input, saving, goods_file, wallet_file,
                   typed, variant, harness_vars, fn_vars>>

\* process_purchase returns True or False to buy_menu, which calls save_data
\* after True
return_to_menu ==
    /\ pc \in {"Committed", "RolledBack"}
    /\ outcome' = IF pc = "Committed" THEN "Success" ELSE "NoChangeAvailable"
    /\ saving' = IF pc = "Committed" THEN "goods" ELSE "none"
    /\ pc' = "Idle"
    /\ UNCHANGED <<cash, products, slot, total, inserted, change_detail,
                   pre_cash, pre_products, last_input, refund, goods_file,
                   wallet_file, typed, variant, harness_vars, fn_vars>>

\* save_data, first write: FileMgr.save_goods(self.products)
write_goods ==
    /\ saving = "goods"
    /\ goods_file' = save_goods(products)
    /\ saving' = "wallet"
    /\ UNCHANGED <<cash, products, pc, slot, total, inserted, outcome,
                   change_detail, pre_cash, pre_products, last_input, refund,
                   wallet_file, typed, variant, harness_vars, fn_vars>>

\* save_data, second write: FileMgr.save_wallet(self.cash_mgr.cash)
write_wallet ==
    /\ saving = "wallet"
    /\ wallet_file' = save_wallet(cash)
    /\ saving' = "none"
    /\ UNCHANGED <<cash, products, pc, slot, total, inserted, outcome,
                   change_detail, pre_cash, pre_products, last_input, refund,
                   goods_file, typed, variant, harness_vars, fn_vars>>

\* a maintenance screen that leaves the old contents in place
clear_keeps(d) == d

\* dict.clear(): setup_goods empties the catalogue and setup_wallet empties
\* the ledger before anything is typed
clear(d) == EmptyDict

\* the loop of setup_goods over the slots: a slot whose name is blank is
\* skipped, and so is one whose price or stock Product refuses
enter_slots(prods, entries) ==
    [s \in DOMAIN prods \cup
            {k \in DOMAIN entries :
                /\ entries[k].name # ""
                /\ ~Product_init(entries[k].name, entries[k].price,
                                 entries[k].stock).raised}
        |-> IF /\ s \in DOMAIN entries
               /\ entries[s].name # ""
               /\ ~Product_init(entries[s].name, entries[s].price,
                                entries[s].stock).raised
            THEN Product_init(entries[s].name, entries[s].price,
                              entries[s].stock).val
            ELSE prods[s]]

\* setup_goods from the maintenance menu: the catalogue is cleared, every
\* slot given a name gets a new Product unless Product raises ValueError,
\* which is caught and reported as a skipped slot, and save_data writes both
\* files
setup_goods(entries) ==
    /\ pc = "Idle"
    /\ saving = "none"
    /\ products' = enter_slots(clear(products), entries)
    /\ goods_file' = save_goods(products')
    /\ wallet_file' = save_wallet(cash)
    /\ slot' = 0
    /\ total' = 0
    /\ inserted' = EmptyDict
    /\ outcome' = "none"
    /\ change_detail' = EmptyDict
    /\ pre_cash' = EmptyDict
    /\ pre_products' = EmptyDict
    /\ last_input' = IF \E s \in DOMAIN entries :
                           /\ entries[s].name # ""
                           /\ Product_init(entries[s].name, entries[s].price,
                                           entries[s].stock).raised
                      THEN "slot_skipped" ELSE "none"
    /\ refund' = None
    /\ typed' = [by |-> "setup_goods", entries |-> entries,
                 rejected |-> "none"]
    /\ UNCHANGED <<cash, pc, saving, variant, harness_vars, fn_vars>>

\* what the operator may answer at one prompt of setup_wallet: nothing, or a
\* count
Answers ==
    {[kind |-> "blank", n |-> 0]} \cup
    {[kind |-> "count", n |-> k] : k \in 0..MaxCount}

\* the prompts of setup_wallet the operator answers; the others are left
\* blank
AnsweredDenoms == {DENOMINATIONS[i] : i \in {1, 2}}

\* the first answer of the screen may be one the prompt refuses (a negative
\* number, or text) before the answer that counts
Rejections == {"none", "negative", "text"}

\* the loop of setup_wallet over the nine denominations: a blank answer
\* stores 0, a count stores the count; a prompt nobody answers is blank
enter_counts(c, answers) ==
    [d \in DOMAIN c \cup valid_money
        |-> IF d \in valid_money
            THEN IF d \in DOMAIN answers /\ answers[d].kind = "count"
                 THEN answers[d].n ELSE 0
            ELSE c[d]]

\* setup_wallet: the ledger is emptied, every denomination is prompted for
\* until an answer is accepted, and both files are saved
setup_wallet(answers, rejected) ==
    /\ pc = "Idle"
    /\ saving = "none"
    /\ pre_cash' = EmptyDict
    /\ pre_products' = EmptyDict
    /\ cash' = enter_counts(clear(cash), answers)
    /\ goods_file' = save_goods(products)
    /\ wallet_file' = save_wallet(cash')
    /\ slot' = 0
    /\ total' = 0
    /\ inserted' = EmptyDict
    /\ outcome' = "none"
    /\ change_detail' = EmptyDict
    /\ last_input' = CASE rejected = "negative" -> "must_be_nonnegative"
                        [] rejected = "text" -> "numbers_only"
                        [] OTHER -> "none"
    /\ refund' = None
    /\ typed' = [by |-> "setup_wallet", entries |-> answers,
                 rejected |-> rejected]
    /\ UNCHANGED <<products, pc, saving, variant, harness_vars, fn_vars>>

Next ==
    \/ \E s \in SLOTS : select_product(s)
    \/ \E amount \in PayInputs : insert_money(amount)
    \/ type_text
    \/ cancel
    \/ evaluate
    \/ return_to_menu
    \/ write_goods
    \/ write_wallet
    \/ \E entries \in GoodsEntries : setup_goods(entries)

Spec == Init /\ [][Next]_vars

\* the payer goes on typing and in the end cancels or inserts a denomination
PayerActs == cancel \/ \E amount \in PayDenoms : insert_money(amount)

\* the program, once the payment is collected, runs on to its return:
\* evaluate is enabled exactly where pc = "Evaluating" and is the one step
\* that leaves that state, so its weak fairness is that the purchase is
\* again and again not in that state
FairSpec ==
    /\ Spec
    /\ WF_vars(PayerActs)
    /\ []<>(pc # "Evaluating")
    /\ WF_vars(return_to_menu)

\* the maintenance menu alone: the two screens that replace the catalogue
\* and the ledger
AdminNext ==
    \/ \E entries \in GoodsEntries : setup_goods(entries)
    \/ \E answers \in [AnsweredDenoms -> Answers], rejected \in Rejections :
          setup_wallet(answers, rejected)

SpecAdmin == Init /\ [][AdminNext]_vars

(* ------------- the purchase in the forks that abort on bad input ------- *)
\* Vending_Machine_G08.py, cmd_G08_TP.py and vending.py (with the classes of
\* FileAndMEM_Class.py) share one CashManager and one shape of
\* process_purchase; they differ in what they print and undo
StrictVariants == {"Vending_Machine_G08", "cmd_G08_TP", "vending"}

\* CashManager.make_change of the forks: largest denomination first, every
\* unit taken out of self.cash as it is counted; None when the amount is not
\* used up, with the units already taken still gone.  i is the index of the
\* denomination in the ascending catalogue
RECURSIVE strict_make_change_from(_, _, _, _)
strict_make_change_from(i, amount, c, result) ==
    IF i = 0
    THEN [ret |-> IF amount = 0 THEN Some(result) ELSE None, cash |-> c]
    ELSE LET d == DENOMINATIONS[i]
             n == take_units(amount, d, Get(c, d, 0))
         IN  IF n > 0
             THEN strict_make_change_from(i - 1, amount - d * n,
                                          Put(c, d, c[d] - n),
                                          Put(result, d, n))
             ELSE strict_make_change_from(i - 1, amount, c, result)

strict_make_change(c, amount) ==
    strict_make_change_from(Len(DENOMINATIONS), amount, c, EmptyDict)

\* CashManager.add of the forks, for every (d, c) of inserted
strict_add_all(c, inserted_money) ==
    [d \in DOMAIN c \cup DOMAIN inserted_money |->
        Get(c, d, 0) + Get(inserted_money, d, 0)]

\* vending.py lines 119-120: self.cash_mgr.cash[d] -= c for what was inserted
strict_take_back(c, inserted_money) ==
    [d \in DOMAIN c |-> c[d] - Get(inserted_money, d, 0)]

\* what the fork prints as refunded when it aborts in the payment loop:
\* cmd_G08_TP prints the failure alone, the other two print
\* format_cash(inserted)
abort_report(v, inserted_money) ==
    IF v = "cmd_G08_TP" THEN None ELSE Some(inserted_money)

StrictInit ==
    /\ HarnessOff
    /\ FnOff
    /\ variant \in StrictVariants
    /\ goods_file \in [SLOTS -> [name : {"cola"}, price : 1..MaxPrice,
                                 stock : 0..MaxStock]]
    /\ wallet_file \in DictsOver(PayDenoms, MaxCount)
    /\ products = goods_file
    /\ cash = wallet_file
    /\ pc = "Idle"
    /\ slot = 0
    /\ total = 0
    /\ inserted = EmptyDict
    /\ outcome = "none"
    /\ change_detail = EmptyDict
    /\ pre_cash = EmptyDict
    /\ pre_products = EmptyDict
    /\ last_input = "none"
    /\ refund = None
    /\ saving = "none"
    /\ typed = NothingTyped

\* process_purchase up to the first prompt: out of stock ends it at once
strict_select(s) ==
    /\ pc = "Idle"
    /\ s \in DOMAIN products
    /\ slot' = s
    /\ pre_cash' = cash
    /\ pre_products' = products
    /\ total' = 0
    /\ inserted' = EmptyDict
    /\ change_detail' = EmptyDict
    /\ last_input' = "none"
    /\ IF ~(products[s].stock > 0)
       THEN /\ pc' = "Idle"
            /\ outcome' = "OutOfStock"
            /\ refund' = abort_report(variant, EmptyDict)
       ELSE /\ pc' = "CollectingPayment"
            /\ outcome' = "none"
            /\ refund' = None
    /\ UNCHANGED <<cash, products, saving, goods_file, wallet_file, typed,
                   variant, harness_vars, fn_vars>>

\* a number typed at the prompt: a denomination is counted, anything else
\* ends the purchase
strict_insert(amount) ==
    /\ pc = "CollectingPayment"
    /\ amount \in valid_money =>
           Get(cash, amount, 0) + Get(inserted, amount, 0) < MaxCount
    /\ IF amount \in valid_money
       THEN /\ inserted' = Put(inserted, amount, Get(inserted, amount, 0) + 1)
            /\ total' = total + amount
            /\ pc' = IF total' < products[slot].price
                      THEN "CollectingPayment" ELSE "Evaluating"
            /\ last_input' = "accepted"
            /\ UNCHANGED <<outcome, refund>>
       ELSE /\ pc' = "Idle"
            /\ outcome' = "UnsupportedDenomination"
            /\ refund' = abort_report(variant, inserted)
            /\ last_input' = "invalid_denomination"
            /\ UNCHANGED <<inserted, total>>
    /\ UNCHANGED <<cash, products, slot, change_detail, pre_cash,
                   pre_products, saving, goods_file, wallet_file, typed,
                   variant, harness_vars, fn_vars>>

\* text that int() refuses ends the purchase the same way
strict_text ==
    /\ pc = "CollectingPayment"
    /\ pc' = "Idle"
    /\ outcome' = "InvalidInput"
    /\ refund' = abort_report(variant, inserted)
    /\ last_input' = "numbers_only"
    /\ UNCHANGED <<cash, products, slot, total, inserted, change_detail,
                   pre_cash, pre_products, saving, goods_file, wallet_file,
                   typed, variant, harness_vars, fn_vars>>

\* 'c' at the prompt: all three print what was inserted (cmd_G08_TP prints
\* "No cash inserted" when that is nothing)
strict_cancel ==
    /\ pc = "CollectingPayment"
    /\ pc' = "Idle"
    /\ outcome' = "UserCancelled"
    /\ refund' = Some(inserted)
    /\ last_input' = "cancel"
    /\ UNCHANGED <<cash, products, slot, total, inserted, change_detail,
                   pre_cash, pre_products, saving, goods_file, wallet_file,
                   typed, variant, harness_vars, fn_vars>>

\* process_purchase after the loop: the money goes into the ledger, change
\* is made, the stock is cut, and cmd_G08_TP and vending.py save both files.
\* When no change can be made only vending.py takes the inserted money out
\* again
strict_settle ==
    /\ pc = "Evaluating"
    /\ pc' = "Idle"
    /\ LET paid == strict_add_all(cash, inserted)
           change_amt == total - products[slot].price
           r == IF change_amt > 0 THEN strict_make_change(paid, change_amt)
                ELSE [ret |-> Some(EmptyDict), cash |-> paid]
       IN  IF ~r.ret.some
           THEN /\ outcome' = "NoChangeAvailable"
                /\ refund' = Some(inserted)
                /\ cash' = IF variant = "vending"
                           THEN strict_take_back(r.cash, inserted)
                           ELSE r.cash
                /\ UNCHANGED <<products, change_detail, goods_file,
                               wallet_file>>
           ELSE /\ outcome' = "Committed"
                /\ refund' = None
                /\ cash' = r.cash
                /\ change_detail' = r.ret.val
                /\ products' = [products EXCEPT ![slot].stock = @ - 1]
                /\ IF variant = "Vending_Machine_G08"
                   THEN UNCHANGED <<goods_file, wallet_file>>
                   ELSE /\ goods_file' = products'
                        /\ wallet_file' = cash'
    /\ UNCHANGED <<slot, total, inserted, pre_cash, pre_products, last_input,
                   saving, typed, variant, harness_vars, fn_vars>>

StrictNext ==
    \/ \E s \in SLOTS : strict_select(s)
    \/ \E amount \in PayInputs : strict_insert(amount)
    \/ strict_text
    \/ strict_cancel
    \/ strict_settle

SpecStrict == StrictInit /\ [][StrictNext]_vars

(* ------------ the purchase in the forks with the greedy engine --------- *)
\* VendingMachine.py and projectmidterm.py: can_change is asked of the
\* ledger as it is before the inserted money is added, and make_change of
\* the ledger after
SimpleVariants == {"VendingMachine", "projectmidterm"}

\* CashMgr._calc_change of the fork v, as a dry run or not
calc_change(v, amt, c) ==
    IF v = "VendingMachine" THEN calc_change_while(amt, c)
    ELSE calc_change_min(amt, c)

\* _calc_change with simulate=False: the combination found is taken out of
\* the ledger (projectmidterm.py stops at 0), None leaves it alone
simple_make_change(v, c, amt) ==
    LET r == calc_change(v, amt, c)
    IN  [ret |-> r,
         cash |-> IF ~r.some THEN c
                  ELSE [d \in DOMAIN c |->
                           IF d \notin DOMAIN r.val THEN c[d]
                           ELSE IF v = "VendingMachine" \/ c[d] - r.val[d] > 0
                                THEN c[d] - r.val[d] ELSE 0]]

\* the prices of this machine, and what its payer and its ledger hold: coins
\* of 2 and 5 in the ledger, 1, 2, 5 and 10 in the payer's hand
SimplePrices == {3 * k : k \in 1..MaxPrice}
SimpleLedgerDenoms == {DENOMINATIONS[i] : i \in {2, 3}}
SimpleInputs == {DENOMINATIONS[i] : i \in 1..4} \cup {BadDenom}

SimpleInit ==
    /\ HarnessOff
    /\ FnOff
    /\ variant \in SimpleVariants
    /\ goods_file \in [SLOTS -> [name : {"cola"}, price : SimplePrices,
                                 stock : 0..MaxStock]]
    /\ wallet_file \in DictsOver(SimpleLedgerDenoms, FnMaxUnits)
    /\ products = goods_file
    /\ cash = wallet_file
    /\ pc = "Idle"
    /\ slot = 0
    /\ total = 0
    /\ inserted = EmptyDict
    /\ outcome = "none"
    /\ change_detail = EmptyDict
    /\ pre_cash = EmptyDict
    /\ pre_products = EmptyDict
    /\ last_input = "none"
    /\ refund = None
    /\ saving = "none"
    /\ typed = NothingTyped

\* process_purchase up to the first prompt of collect_payment
simple_select(s) ==
    /\ pc = "Idle"
    /\ s \in DOMAIN products
    /\ slot' = s
    /\ pre_cash' = cash
    /\ pre_products' = products
    /\ total' = 0
    /\ inserted' = EmptyDict
    /\ change_detail' = EmptyDict
    /\ last_input' = "none"
    /\ refund' = None
    /\ ret' = None
    /\ answer' = FALSE
    /\ IF ~(products[s].stock > 0)
       THEN pc' = "Idle" /\ outcome' = "OutOfStock"
       ELSE pc' = "CollectingPayment" /\ outcome' = "none"
    /\ UNCHANGED <<cash, products, saving, goods_file, wallet_file, typed,
                   variant, held, shared, op, arg, err, fn_vars>>

\* collect_payment: a number typed; a denomination is counted, anything
\* else is refused and the loop goes on
simple_insert(amount) ==
    /\ pc = "CollectingPayment"
    /\ IF amount \in valid_money
       THEN /\ inserted' = Put(inserted, amount, Get(inserted, amount, 0) + 1)
            /\ total' = total + amount
            /\ pc' = IF total' < products[slot].price
                      THEN "CollectingPayment" ELSE "Evaluating"
            /\ last_input' = "accepted"
       ELSE /\ last_input' = "invalid_denomination"
            /\ UNCHANGED <<inserted, total, pc>>
    /\ UNCHANGED <<cash, products, slot, outcome, refund, change_detail,
                   pre_cash, pre_products, saving, goods_file, wallet_file,
                   typed, variant, harness_vars, fn_vars>>

\* collect_payment: text that int() refuses
simple_text ==
    /\ pc = "CollectingPayment"
    /\ last_input' = "numbers_only"
    /\ UNCHANGED <<cash, products, pc, slot, total, inserted, outcome, refund,
                   change_detail, pre_cash, pre_products, saving, goods_file,
                   wallet_file, typed, variant, harness_vars, fn_vars>>

\* collect_payment: 'c'; projectmidterm.py shows the money it returns
simple_cancel ==
    /\ pc = "CollectingPayment"
    /\ pc' = "Idle"
    /\ outcome' = "UserCancelled"
    /\ refund' = IF variant = "projectmidterm" THEN Some(inserted) ELSE None
    /\ last_input' = "cancel"
    /\ UNCHANGED <<cash, products, slot, total, inserted, change_detail,
                   pre_cash, pre_products, saving, goods_file, wallet_file,
                   typed, variant, harness_vars, fn_vars>>

\* process_purchase after collect_payment, and the save_data of buy_menu:
\* answer is what can_change said, ret what make_change returned
simple_settle ==
    /\ pc = "Evaluating"
    /\ pc' = "Idle"
    /\ LET change_amount == total - products[slot].price
       IN  /\ answer' = IF change_amount > 0
                         THEN calc_change(variant, change_amount, cash).some
                         ELSE FALSE
           /\ IF change_amount > 0 /\ ~answer'
              THEN /\ outcome' = "NoChangeAvailable"
                   /\ refund' = IF variant = "projectmidterm"
                                 THEN Some(inserted) ELSE None
                   /\ ret' = None
                   /\ wallet_file' = IF variant = "VendingMachine"
                                      THEN cash ELSE wallet_file
                   /\ goods_file' = IF variant = "VendingMachine"
                                     THEN products ELSE goods_file
                   /\ UNCHANGED <<cash, products, change_detail>>
              ELSE LET paid == strict_add_all(cash, inserted)
                       r == IF change_amount > 0
                            THEN simple_make_change(variant, paid,
                                                    change_amount)
                            ELSE [ret |-> Some(EmptyDict), cash |-> paid]
                   IN  /\ outcome' = "Committed"
                       /\ refund' = None
                       /\ ret' = r.ret
                       /\ change_detail' = r.ret.val
                       /\ cash' = r.cash
                       /\ products' = [products EXCEPT ![slot].stock = @ - 1]
                       /\ goods_file' = products'
                       /\ wallet_file' = cash'
    /\ UNCHANGED <<slot, total, inserted, pre_cash, pre_products, last_input,
                   saving, typed, variant, held, shared, op, arg, err,
                   fn_vars>>

SimpleNext ==
    \/ \E s \in SLOTS : simple_select(s)
    \/ \E amount \in SimpleInputs : simple_insert(amount)
    \/ simple_text
    \/ simple_cancel
    \/ simple_settle

SpecSimple == SimpleInit /\ [][SimpleNext]_vars

(* ----------------------- purchases of the scenarios -------------------- *)
\* the ledgers and prices of three purchases
LedgerWithFives == (10 :> 1) @@ (5 :> 3) @@ (1 :> 5)

LedgerOfOnes == (10 :> 0) @@ (5 :> 0) @@ (1 :> 2)

Scenarios ==
    {[price |-> 15, ledger |-> LedgerWithFives],
     [price |-> 15, ledger |-> LedgerOfOnes],
     [price |-> 50, ledger |-> LedgerWithFives]}

\* what the payer of a scenario types: 5, 10, 20 or a number that is no
\* denomination
ScenarioInputs == {DENOMINATIONS[i] : i \in {3, 4, 5}} \cup {BadDenom}

ScenarioInit ==
    /\ HarnessOff
    /\ FnOff
    /\ \E sc \in Scenarios :
          /\ goods_file = (1 :> [name |-> "cola", price |-> sc.price, stock |-> 2])
          /\ wallet_file = sc.ledger
    /\ products = load_goods(goods_file)
    /\ cash = load_wallet(wallet_file)
    /\ pc = "Idle"
    /\ slot = 0
    /\ total = 0
    /\ inserted = EmptyDict
    /\ outcome = "none"
    /\ change_detail = EmptyDict
    /\ pre_cash = EmptyDict
    /\ pre_products = EmptyDict
    /\ last_input = "none"
    /\ refund = None
    /\ saving = "none"
    /\ typed = NothingTyped
    /\ variant = "VendingMachinePro"

ScenarioNext ==
    \/ \E s \in SLOTS : select_product(s)
    \/ \E amount \in ScenarioInputs : collect_step(amount)
    \/ type_text
    \/ cancel
    \/ evaluate
    \/ return_to_menu
    \/ write_goods
    \/ write_wallet

SpecScenario == ScenarioInit /\ [][ScenarioNext]_vars

(* ------------------- the change engine on its own ---------------------- *)
FnDenoms == {DENOMINATIONS[i] : i \in 1..FnNumDenoms}

FnInit ==
    /\ MachineOff
    /\ HarnessOff
    /\ cash = EmptyDict
    /\ fn_pc = "call"
    /\ fn_amt \in -1..MaxAmt
    /\ fn_available \in DictsOver(FnDenoms, FnMaxUnits)
    /\ fn_result = None
    /\ fn_greedy = NoGreedy
    /\ LoopOff

\* one ledger and one amount given to the three engines
compute_change ==
    /\ fn_pc = "call"
    /\ fn_pc' = "returned"
    /\ fn_result' = bounded_min_items_change(fn_amt, fn_available)
    /\ fn_greedy' = [while |-> calc_change_while(fn_amt, fn_available),
                     min |-> calc_change_min(fn_amt, fn_available)]
    /\ UNCHANGED <<fn_amt, fn_available, fn_loop, cash, machine_vars,
                   harness_vars>>

FnNext == compute_change

SpecChange == FnInit /\ [][FnNext]_vars

(* ------------- the change engine, one pass of the table a step --------- *)
\* 5, 20 and 50: the smallest denominations of the catalogue with which two
\* different combinations of the same size add up to one amount
PassDenoms == {DENOMINATIONS[i] : i \in {3, 5, 6}}

\* amounts in steps of the smallest of these denominations
PassAmounts == {MinOf(PassDenoms) * k : k \in -1..MaxAmt}

PassInit ==
    /\ MachineOff
    /\ HarnessOff
    /\ cash = EmptyDict
    /\ fn_pc = "call"
    /\ fn_amt \in PassAmounts
    /\ fn_available \in DictsOver(PassDenoms, FnMaxUnits)
    /\ fn_result = None
    /\ fn_greedy = NoGreedy
    /\ LoopOff

\* lines 86-93: the two early returns, or dp = [None] * (amt + 1), dp[0] = {}
enter_change ==
    /\ fn_pc = "call"
    /\ IF fn_amt < 0
       THEN fn_pc' = "returned" /\ fn_result' = None /\ UNCHANGED fn_loop
       ELSE IF fn_amt = 0
       THEN /\ fn_pc' = "returned"
            /\ fn_result' = Some(EmptyDict)
            /\ UNCHANGED fn_loop
       ELSE /\ fn_pc' = "loop"
            /\ fn_dp' = [a \in 0..fn_amt |->
                            IF a = 0 THEN Some(EmptyDict) ELSE None]
            /\ fn_keys' = DOMAIN fn_available
            /\ fn_denom' = 0
            /\ fn_left' = 0
            /\ UNCHANGED fn_result
    /\ UNCHANGED <<fn_amt, fn_available, fn_greedy, cash, machine_vars,
                   harness_vars>>

\* lines 97-98: the outer loop takes the smallest key not yet visited
next_denom ==
    /\ fn_pc = "loop"
    /\ fn_left = 0
    /\ fn_keys # {}
    /\ fn_denom' = MinOf(fn_keys)
    /\ fn_keys' = fn_keys \ {fn_denom'}
    /\ fn_left' = IF Get(fn_available, fn_denom', 0) > 0
                  THEN Get(fn_available, fn_denom', 0) ELSE 0
    /\ UNCHANGED <<fn_pc, fn_dp, fn_amt, fn_available, fn_result, fn_greedy,
                   cash, machine_vars, harness_vars>>

\* lines 99-111: one turn of "for _ in range(count)", a whole scan of the
\* amounts from amt down to denom
unit_pass ==
    /\ fn_pc = "loop"
    /\ fn_left > 0
    /\ fn_dp' = ScanAmounts(fn_dp, fn_denom, fn_amt)
    /\ fn_left' = fn_left - 1
    /\ UNCHANGED <<fn_pc, fn_keys, fn_denom, fn_amt, fn_available, fn_result,
                   fn_greedy, cash, machine_vars, harness_vars>>

\* line 113: return dp[amt]
return_change ==
    /\ fn_pc = "loop"
    /\ fn_left = 0
    /\ fn_keys = {}
    /\ fn_pc' = "returned"
    /\ fn_result' = fn_dp[fn_amt]
    /\ UNCHANGED <<fn_loop, fn_amt, fn_available, fn_greedy, cash,
                   machine_vars, harness_vars>>

PassNext ==
    \/ enter_change
    \/ next_denom
    \/ unit_pass
    \/ return_change

SpecPasses == PassInit /\ [][PassNext]_vars

\* brute force: every way of taking at most available[d] units of each key
Selections(available) ==
    [DOMAIN available -> 0..FnMaxUnits + 1]

Within(sel, available) == \A d \in DOMAIN available : sel[d] <= available[d]

Feasible(a, available) ==
    \E sel \in Selections(available) :
        Within(sel, available) /\ FaceValue(sel) = a

\* C2: a returned combination sums exactly to the amount and uses no more
\* units of any denomination than are available
ChangeExact ==
    (fn_pc = "returned" /\ fn_result.some) =>
        /\ FaceValue(fn_result.val) = fn_amt
        /\ \A d \in DOMAIN fn_result.val :
               /\ fn_result.val[d] >= 1
               /\ fn_result.val[d] <= Get(fn_available, d, 0)

ChangeExactWitness ==
    /\ fn_pc = "returned"
    /\ fn_result.some
    /\ Cardinality(DOMAIN fn_result.val) >= 2
    /\ \E d \in DOMAIN fn_result.val : fn_result.val[d] = fn_available[d]

\* C3: a combination is returned exactly when some selection within the
\* available counts sums to the amount
FeasibilitySound ==
    fn_pc = "returned" =>
        (fn_result.some <=> Feasible(fn_amt, fn_available))

FeasibilitySoundWitness ==
    /\ fn_pc = "returned"
    /\ fn_result.some
    /\ fn_result.val # EmptyDict
    /\ \E d \in DOMAIN fn_available :
           /\ fn_available[d] > 0
           /\ d <= fn_amt
           /\ d \notin DOMAIN fn_result.val
           /\ \A k \in DOMAIN fn_result.val : k < d

\* C4: a returned combination has the least number of pieces among the
\* selections within the available counts that sum to the amount
MinimalPieces ==
    (fn_pc = "returned" /\ fn_result.some) =>
        \A sel \in Selections(fn_available) :
            (Within(sel, fn_available) /\ FaceValue(sel) = fn_amt)
                => SumValues(fn_result.val) <= SumValues(sel)

MinimalPiecesWitness ==
    /\ fn_pc = "returned"
    /\ fn_result.some
    /\ \E sel \in Selections(fn_available) :
           /\ Within(sel, fn_available)
           /\ FaceValue(sel) = fn_amt
           /\ SumValues(sel) > SumValues(fn_result.val)


\* C26: whenever a greedy engine (largest denomination first, as in
\* VendingMachine.py and projectmidterm.py) returns a combination for an
\* amount and a ledger, _bounded_min_items_change returns one too, and with
\* no more pieces; and for amount 6 on a ledger with one 5 and three 2s both
\* greedy engines take the 5 and give up while the table finds 2 + 2 + 2
GreedyRefinesBoundedChange ==
    fn_pc = "returned" =>
        /\ \A g \in {fn_greedy.while, fn_greedy.min} :
              g.some => /\ fn_result.some
                        /\ SumValues(fn_result.val) <= SumValues(g.val)
        /\ (fn_amt = 6 /\ fn_available = (5 :> 1) @@ (2 :> 3)) =>
              /\ fn_greedy = NoGreedy
              /\ fn_result = Some((2 :> 3))

\* both greedy engines have returned the same combination, with more than
\* one denomination in it, and so has the table
GreedyRefinesBoundedChangeWitness ==
    /\ fn_pc = "returned"
    /\ fn_greedy.while.some
    /\ Cardinality(DOMAIN fn_greedy.while.val) >= 2
    /\ fn_greedy.min = fn_greedy.while
    /\ fn_result = fn_greedy.while

\* C27: in the table an entry that holds a combination is replaced only by
\* one with strictly fewer pieces, so of two combinations of the same size
\* the one recorded first stays; and what is returned is a function of the
\* amount and the ledger alone
TieKeepsFirstStep ==
    \A a \in DOMAIN fn_dp :
        (a \in DOMAIN fn_dp' /\ fn_dp[a].some /\ fn_dp'[a] # fn_dp[a]) =>
            /\ fn_dp'[a].some
            /\ SumValues(fn_dp'[a].val) < SumValues(fn_dp[a].val)

TieKeepsFirst ==
    /\ [][TieKeepsFirstStep]_vars
    /\ [](fn_pc = "returned" =>
            fn_result = bounded_min_items_change(fn_amt, fn_available))

\* amount 60 on a ledger with three 20s, a 50 and two 5s: 20 + 20 + 20 is
\* recorded first, 50 + 5 + 5 has as many pieces, and 20 + 20 + 20 is returned
TieKeepsFirstWitness ==
    /\ fn_pc = "returned"
    /\ fn_amt = 60
    /\ Get(fn_available, 5, 0) >= 2
    /\ Get(fn_available, 20, 0) >= 3
    /\ Get(fn_available, 50, 0) >= 1
    /\ fn_result = Some((20 :> 3))

(* ------------------------- claims on the ledger ------------------------ *)
\* C5: no count of the ledger is ever negative, whatever sequence of add,
\* remove, make_change, snapshot, restore and process_purchase is called
LedgerNonNegative ==
    /\ \A d \in DOMAIN cash : cash[d] >= 0
    /\ held.some => \A d \in DOMAIN held.val : held.val[d] >= 0

LedgerNonNegativeWitness ==
    /\ op = "remove"
    /\ err
    /\ held.some
    /\ \E d \in DOMAIN cash : cash[d] = 0 /\ Get(held.val, d, 0) > 0

\* C6: remove(denom, count) with count < 0 or count above the current count
\* raises and leaves the ledger as it was; otherwise it lowers the count of
\* denom by count and changes no other entry
RemoveContract ==
    [][op' = "remove" =>
        LET denom == arg'[1]
            count == arg'[2]
            current == Get(cash, denom, 0)
        IN  IF count < 0 \/ count > current
            THEN err' /\ cash' = cash
            ELSE /\ ~err'
                 /\ denom \in DOMAIN cash'
                 /\ cash'[denom] = current - count
                 /\ (DOMAIN cash') \ {denom} = (DOMAIN cash) \ {denom}
                 /\ \A k \in (DOMAIN cash) \ {denom} : cash'[k] = cash[k]]_vars

RemoveContractWitness ==
    /\ op = "remove"
    /\ err
    /\ arg[2] > 0
    /\ Get(cash, arg[1], 0) > 0
    /\ arg[2] > Get(cash, arg[1], 0)

\* C7: add of a denomination outside the catalogue ends in an error and
\* leaves the ledger unchanged
AddRejectsUnknownDenomination ==
    [][(op' = "add" /\ arg'[1] \notin valid_money) => (err' /\ cash' = cash)]_vars

\* C8: restore(snapshot()) leaves the ledger unchanged, and snapshot() right
\* after restore(s) returns s
SnapshotRoundTrip ==
    [][/\ (op = "snapshot" /\ op' = "restore") => cash' = cash
       /\ (op = "restore" /\ op' = "snapshot") => held' = held]_vars

SnapshotRoundTripWitness ==
    /\ op = "restore"
    /\ held.some
    /\ \E d \in DOMAIN held.val : held.val[d] > 0
    /\ \E d \in ApiDenoms : d \notin DOMAIN held.val

\* C9: can_change leaves the ledger as it was, for a negative, zero or
\* positive amount and whatever it answers
CanChangeDryRun ==
    [][op' = "can_change" => cash' = cash]_vars

CanChangeDryRunWitness ==
    /\ op = "can_change"
    /\ answer
    /\ arg[1] > 0

\* C28: a snapshot is an independent copy: add, remove, make_change and
\* restore on the ledger leave a dict that snapshot returned as it was, and
\* a write into that dict, before or after it was passed to restore, leaves
\* the ledger as it was
SnapshotIndependent ==
    [][/\ (held.some /\ op' \in {"add", "remove", "make_change", "restore"})
            => held' = held
       /\ op' = "caller_writes" => cash' = cash]_vars

\* the caller has written into a snapshot that was restored before, and the
\* ledger, which holds money, differs from it
SnapshotIndependentWitness ==
    /\ op = "caller_writes"
    /\ held.some
    /\ held.val # cash
    /\ \E d \in DOMAIN cash : cash[d] > 0 /\ held.val[d] = 0

\* C29: every key of the ledger is a denomination of the catalogue
LedgerKeysInCatalogue == DOMAIN cash \subseteq valid_money

\* C30: the maintenance screens replace wholesale: after setup_wallet the
\* ledger holds exactly the counts entered for the nine denominations (none
\* negative, blank meaning 0) and nothing else; after setup_goods the
\* catalogue holds exactly the slots entered with a name, a price of at
\* least 1 and a stock of at least 0, and no earlier product
AdminReplacesWholesale ==
    /\ typed.by = "setup_wallet" =>
          /\ DOMAIN cash = valid_money
          /\ \A d \in valid_money :
                /\ cash[d] >= 0
                /\ cash[d] = IF d \in DOMAIN typed.entries
                                 /\ typed.entries[d].kind = "count"
                              THEN typed.entries[d].n ELSE 0
    /\ typed.by = "setup_goods" =>
          /\ DOMAIN products =
                {s \in DOMAIN typed.entries :
                    /\ typed.entries[s].name # ""
                    /\ typed.entries[s].price >= 1
                    /\ typed.entries[s].stock >= 0}
          /\ \A s \in DOMAIN products :
                products[s] = [name |-> typed.entries[s].name,
                               price |-> typed.entries[s].price,
                               stock |-> typed.entries[s].stock]

\* setup_wallet has run on a machine without products: its first answer was
\* refused, then one denomination was left blank and another was given the
\* largest count, and the saved ledger is the one entered
AdminReplacesWholesaleWitness ==
    /\ typed.by = "setup_wallet"
    /\ typed.rejected = "negative"
    /\ products = EmptyDict
    /\ goods_file = EmptyDict
    /\ \E d \in AnsweredDenoms :
          /\ typed.entries[d].kind = "blank"
          /\ cash[d] = 0
    /\ \E d \in AnsweredDenoms : cash[d] = MaxCount
    /\ wallet_file = cash

(* ------------------------ claims on the purchase ----------------------- *)
\* process_purchase has returned, or an exception has left it
AfterCall ==
    \/ pc \in {"Committed", "RolledBack", "Raised"}
    \/ pc = "Idle" /\ outcome # "none"

\* the ledger that holds what before held, plus what was paid in, less what
\* was paid out
Settled(before, paid_in, paid_out) ==
    [d \in (DOMAIN before) \cup (DOMAIN paid_in) |->
        Get(before, d, 0) + Get(paid_in, d, 0) - Get(paid_out, d, 0)]

\* C1: when process_purchase has returned, either the stock is one lower and
\* the ledger is the ledger of before plus the money inserted less the change
\* handed out, or stock and ledger are what they were before the call
PurchaseAtomic ==
    AfterCall =>
        \/ /\ products[slot].stock = pre_products[slot].stock - 1
           /\ products[slot].price = pre_products[slot].price
           /\ \A s \in SLOTS \ {slot} : products[s] = pre_products[s]
           /\ DOMAIN change_detail \subseteq DOMAIN cash
           /\ FaceValue(change_detail) = total - products[slot].price
           /\ cash = Settled(pre_cash, inserted, change_detail)
        \/ /\ products = pre_products
           /\ cash = pre_cash

PurchaseAtomicWitness ==
    /\ pc = "Idle"
    /\ outcome = "NoChangeAvailable"
    /\ FaceValue(pre_cash) > 0
    /\ Cardinality(DOMAIN inserted) >= 2

\* C10: a product without stock is never taken into payment collection; the
\* call ends at once as OutOfStock with no money collected and with ledger
\* and stock as they were
OutOfStockFailsAtOnce ==
    [][/\ (pc = "Idle" /\ pc' # "Idle") =>
              (pc' = "CollectingPayment" /\ products[slot'].stock > 0)
       /\ (pc = "Idle" /\ slot' \in DOMAIN products /\ products[slot'].stock = 0
             /\ outcome' # outcome) =>
              outcome' = "OutOfStock"
       /\ outcome' = "OutOfStock" =>
              /\ pc = "Idle" /\ pc' = "Idle"
              /\ products[slot'].stock = 0
              /\ total' = 0
              /\ inserted' = EmptyDict
              /\ cash' = cash
              /\ products' = products]_vars

OutOfStockWitness ==
    /\ outcome = "OutOfStock"
    /\ pc = "Idle"
    /\ FaceValue(cash) > 0

\* C11: while money is being collected none of it is in the ledger, and a
\* cancel after any number of accepted insertions short of the price ends the
\* purchase with ledger and stock as they were before it
CancelLeavesLedgerAndStock ==
    /\ pc \in {"CollectingPayment", "Evaluating"} =>
           (cash = pre_cash /\ products = pre_products)
    /\ outcome = "UserCancelled" =>
           /\ pc = "Idle"
           /\ FaceValue(inserted) = total
           /\ total < products[slot].price
           /\ cash = pre_cash
           /\ products = pre_products

CancelAfterInsertionsWitness ==
    /\ outcome = "UserCancelled"
    /\ SumValues(inserted) >= 2
    /\ FaceValue(cash) > 0

\* C12: when a purchase has failed by a cancel or for want of change, the
\* machine has shown a refund, and the refund shown is the inserted-money
\* mapping collected so far
FailureReportsRefund ==
    (pc = "Idle" /\ outcome \in {"UserCancelled", "NoChangeAvailable"}) =>
        (refund.some /\ refund.val = inserted)

\* C25: in the forks that abort on bad input, a value that is no
\* denomination ends the purchase at once: ledger and stock are those of
\* before the purchase, and the refund shown is the money inserted so far
\* (nothing need be shown when nothing was inserted)
UnsupportedDenominationRefunds ==
    (pc = "Idle" /\ outcome = "UnsupportedDenomination") =>
        /\ cash = pre_cash
        /\ products = pre_products
        /\ \/ refund.some /\ refund.val = inserted
           \/ ~refund.some /\ inserted = EmptyDict

\* the same, without the refund shown
UnsupportedDenominationKeepsState ==
    (pc = "Idle" /\ outcome = "UnsupportedDenomination") =>
        (cash = pre_cash /\ products = pre_products)

\* two ledgers that hold the same count of every denomination, an absent key
\* counting as 0
SameCounts(c1, c2) ==
    \A d \in DOMAIN c1 \cup DOMAIN c2 : Get(c1, d, 0) = Get(c2, d, 0)

\* C31: in Vending_Machine_G08 and cmd_G08_TP, after the return for 'Cannot
\* give change' the ledger is the ledger of before the purchase and the
\* stock is unchanged
StrictNoChangeMutatesNothing ==
    (/\ variant \in {"Vending_Machine_G08", "cmd_G08_TP"}
     /\ pc = "Idle"
     /\ outcome = "NoChangeAvailable") =>
        (SameCounts(cash, pre_cash) /\ products = pre_products)

\* C32: in vending.py, after the return for 'Cannot give change', with the
\* inserted units subtracted again, the ledger is the ledger of before the
\* purchase and the stock is unchanged
VendingNoChangeReverts ==
    (variant = "vending" /\ pc = "Idle" /\ outcome = "NoChangeAvailable") =>
        (SameCounts(cash, pre_cash) /\ products = pre_products)

\* C33: in vending.py with the classes of FileAndMEM_Class.py no count of
\* the ledger is negative, whatever purchases were attempted
VendingLedgerNonNegative ==
    variant = "vending" => \A d \in DOMAIN cash : cash[d] >= 0

\* in all three forks the stock is cut by committed purchases alone
StrictStockKept ==
    (pc = "Idle" /\ outcome = "NoChangeAvailable") => products = pre_products

\* the largest count of a dict
Most(available) ==
    CHOOSE n \in {available[d] : d \in DOMAIN available} \cup {0} :
        \A d \in DOMAIN available : available[d] <= n

\* brute force: some way of taking at most available[d] units of each key
\* has the face value a
Payable(a, available) ==
    \E sel \in [DOMAIN available -> 0..Most(available)] :
        Within(sel, available) /\ FaceValue(sel) = a

\* C34: in VendingMachine.py and projectmidterm.py a purchase reported
\* successful with change to give has dispensed a combination worth exactly
\* the change and taken exactly that out of the ledger: make_change, called
\* with the inserted money added, has not returned None
SimpleSuccessDispensesChange ==
    (/\ pc = "Idle"
     /\ outcome = "Committed"
     /\ total - products[slot].price > 0) =>
        /\ ret.some
        /\ FaceValue(ret.val) = total - products[slot].price
        /\ \A d \in DOMAIN cash \cup DOMAIN pre_cash \cup DOMAIN inserted :
              Get(cash, d, 0) = Get(pre_cash, d, 0) + Get(inserted, d, 0)
                                    - Get(ret.val, d, 0)

\* C35: in VendingMachine.py and projectmidterm.py no purchase is refused
\* for want of change when the change can be paid with units the payer has
\* just inserted
SimpleCountsInsertedMoney ==
    (pc = "Idle" /\ outcome = "NoChangeAvailable") =>
        ~Payable(total - products[slot].price, inserted)

\* C13: a purchase that owes change commits exactly when the change can be
\* paid out of the ledger of before the purchase together with the money
\* inserted, and is rolled back as NoChangeAvailable exactly when it cannot
ChangeFromLedgerWithPayment ==
    LET owed == total - pre_products[slot].price
        committed == pc = "Committed" \/ (pc = "Idle" /\ outcome = "Success")
        rolled_back == \/ pc = "RolledBack"
                       \/ (pc = "Idle" /\ outcome = "NoChangeAvailable")
    IN  ((committed \/ rolled_back) /\ owed > 0) =>
            /\ committed <=> Payable(owed, Settled(pre_cash, inserted, EmptyDict))
            /\ committed => FaceValue(change_detail) = owed

ChangeFromPaymentWitness ==
    /\ pc = "Committed"
    /\ total > pre_products[slot].price
    /\ \E d \in DOMAIN change_detail : change_detail[d] > Get(pre_cash, d, 0)
    /\ ~Payable(total - pre_products[slot].price, pre_cash)

\* C36: cash conservation: when a purchase has committed the face value of
\* the ledger is that of before the purchase plus the price of the product,
\* and when an attempt has ended any other way it is that of before
CashConserved ==
    AfterCall =>
        FaceValue(cash) =
            IF pc = "Committed" \/ (pc = "Idle" /\ outcome = "Success")
            THEN FaceValue(pre_cash) + pre_products[slot].price
            ELSE FaceValue(pre_cash)

\* a purchase has committed with change handed out of a ledger that held
\* money before
CashConservedWitness ==
    /\ pc = "Committed"
    /\ FaceValue(change_detail) > 0
    /\ FaceValue(pre_cash) > 0
    /\ FaceValue(cash) = FaceValue(pre_cash) + products[slot].price

(* ------------------------ claims on the scenarios ---------------------- *)
\* C37: while money is collected the running total is the face value of the
\* inserted-money mapping; money is accepted only while the total is below
\* the price, and collection ends with the first insertion that brings the
\* total to the price or more, so that the change due is less than the
\* denomination inserted last
CollectionStep ==
    (pc = "CollectingPayment" /\ inserted' # inserted) =>
        \E d \in valid_money :
            /\ inserted' = Put(inserted, d, Get(inserted, d, 0) + 1)
            /\ total' = total + d
            /\ total < products[slot].price
            /\ (pc' = "Evaluating") <=> (total' >= products[slot].price)
            /\ pc' = "Evaluating" => total' - products[slot].price < d

TotalTracksInserted ==
    /\ [](pc \in {"CollectingPayment", "Evaluating"} =>
             total = FaceValue(inserted))
    /\ [][CollectionStep]_vars

\* collection has ended after insertions of two denominations, with change
\* due
TotalTracksInsertedWitness ==
    /\ pc = "Evaluating"
    /\ total > products[slot].price
    /\ Cardinality(DOMAIN inserted) >= 2
\* the purchase under way or just ended is of a product of price p
Priced(p) == slot \in DOMAIN pre_products /\ pre_products[slot].price = p

\* C14: price 15, ledger {10:1, 5:3, 1:5}, payment {20:1}: the purchase
\* commits, the change is {5:1}, the ledger afterwards is
\* {10:1, 5:2, 1:5, 20:1} and the stock is one lower
ScenarioChangeOfFive ==
    (/\ AfterCall
     /\ Priced(15)
     /\ pre_cash = LedgerWithFives
     /\ inserted = (20 :> 1)) =>
        /\ pc = "Committed" \/ outcome = "Success"
        /\ change_detail = (5 :> 1)
        /\ cash = (10 :> 1) @@ (5 :> 2) @@ (1 :> 5) @@ (20 :> 1)
        /\ products[slot].stock = pre_products[slot].stock - 1

ScenarioChangeOfFiveWitness ==
    /\ Priced(15)
    /\ pre_cash = LedgerWithFives
    /\ inserted = (20 :> 1)
    /\ outcome = "Success"
    /\ saving = "none"

\* C15: price 15, ledger {10:0, 5:0, 1:2}, payment {20:1}: no change of 5
\* can be made, the purchase is rolled back, the ledger afterwards is the
\* ledger of before with no 20 in it, and the stock is unchanged
ScenarioNoChange ==
    (/\ AfterCall
     /\ Priced(15)
     /\ pre_cash = LedgerOfOnes
     /\ inserted = (20 :> 1)) =>
        /\ pc = "RolledBack" \/ outcome = "NoChangeAvailable"
        /\ change_detail = EmptyDict
        /\ cash = LedgerOfOnes
        /\ 20 \notin DOMAIN cash
        /\ products = pre_products

ScenarioNoChangeWitness ==
    /\ Priced(15)
    /\ pre_cash = LedgerOfOnes
    /\ inserted = (20 :> 1)
    /\ outcome = "NoChangeAvailable"

NoFaultEscapes ==
    /\ pc \in {"Idle", "CollectingPayment", "Evaluating", "Committed", "RolledBack"}
    /\ outcome \in {"none", "OutOfStock", "UserCancelled", "NoChangeAvailable",
                    "Success"}
    /\ pc = "Evaluating" =>
           LET c1 == AddAll(cash, inserted, DOMAIN inserted)
               mc == make_change(c1, total - products[slot].price)
           IN  total >= products[slot].price /\ ~mc.raised

NoFaultEscapesWitness ==
    /\ pc = "Committed"
    /\ change_detail # EmptyDict
    /\ \E d \in DOMAIN change_detail : cash[d] = 0 /\ change_detail[d] >= 2

\* C21: a purchase goes from Idle to CollectingPayment, from there to
\* Evaluating or, on a cancel, back to Idle, from Evaluating to Committed or
\* to RolledBack and from either of these to Idle; Evaluating is entered only
\* with a total of at least the price, and a step of a purchase changes the
\* ledger or the stock only when it leaves Evaluating
PurchaseStateOrder ==
    [][/\ pc' # pc =>
              \/ pc = "Idle" /\ pc' = "CollectingPayment"
              \/ pc = "CollectingPayment" /\ pc' \in {"Evaluating", "Idle"}
              \/ pc = "Evaluating" /\ pc' \in {"Committed", "RolledBack"}
              \/ pc \in {"Committed", "RolledBack"} /\ pc' = "Idle"
       /\ (pc # "Evaluating" /\ pc' = "Evaluating") =>
              total' >= products[slot].price
       /\ pc = "Evaluating" => pc' \in {"Evaluating", "Committed", "RolledBack"}
       /\ ((pc # "Idle" \/ pc' # "Idle") /\ (cash' # cash \/ products' # products))
              => pc = "Evaluating"]_vars

PurchaseStateOrderWitness ==
    /\ pc = "Idle"
    /\ outcome = "NoChangeAvailable"
    /\ saving = "none"
    /\ total > pre_products[slot].price
    /\ SumValues(inserted) >= 2

\* C23: a purchase paid exactly commits whatever the ledger holds: the stock
\* is one lower, the ledger is the ledger of before plus the money inserted,
\* and the change is empty
ExactPaymentCommits ==
    (/\ slot \in DOMAIN pre_products
     /\ total = pre_products[slot].price
     /\ pc \in {"Committed", "RolledBack"} \/ (pc = "Idle" /\ outcome # "none")) =>
        /\ pc = "Committed" \/ outcome = "Success"
        /\ products[slot].stock = pre_products[slot].stock - 1
        /\ cash = Settled(pre_cash, inserted, EmptyDict)
        /\ change_detail = EmptyDict

ExactPaymentCommitsWitness ==
    /\ pc = "Committed"
    /\ total = pre_products[slot].price
    /\ FaceValue(pre_cash) = 0
    /\ SumValues(inserted) >= 2

\* C24: a number outside the catalogue typed during collection is rejected:
\* the inserted money, the running total and the ledger are what they were
\* before it, and collection goes on
InvalidDenominationRetainsNothing ==
    [][(/\ pc = "CollectingPayment"
        /\ last_input' = "invalid_denomination"
        /\ outcome' = outcome) =>
            /\ inserted' = inserted
            /\ total' = total
            /\ cash' = cash
            /\ products' = products
            /\ pc' = "CollectingPayment"]_vars

InvalidDenominationWitness ==
    /\ pc = "CollectingPayment"
    /\ last_input = "invalid_denomination"
    /\ inserted # EmptyDict
    /\ FaceValue(cash) > 0

\* C22: every purchase attempt comes back to Idle, and while money is
\* collected the number of accepted insertions stays within the price
PurchaseReturns ==
    /\ [](pc \in {"CollectingPayment", "Evaluating"} =>
             /\ SumValues(inserted) <= FaceValue(inserted)
             /\ FaceValue(inserted) = total
             /\ SumValues(inserted) <= products[slot].price)
    /\ (pc # "Idle") ~> (pc = "Idle")

PurchaseReturnsWitness ==
    /\ pc = "Idle"
    /\ outcome = "Success"
    /\ SumValues(inserted) = pre_products[slot].price
    /\ SumValues(inserted) >= 2

(* ------------------------- claims on the catalogue --------------------- *)
\* C17: no stock is ever negative; a purchase attempt has lowered the stock
\* of its product by one when it committed and by nothing otherwise, and has
\* left the other products alone; Product.buy on a stock of 0 returns False
\* and changes nothing
StockCountsCommits ==
    /\ \A s \in DOMAIN products :
           /\ products[s].stock >= 0
           /\ products[s].stock = 0 =>
                  (buy(products[s]) = products[s] /\ ~buy_returns(products[s]))
    /\ slot \in DOMAIN pre_products =>
           /\ DOMAIN products = DOMAIN pre_products
           /\ products[slot].stock = pre_products[slot].stock -
                  (IF pc = "Committed" \/ outcome = "Success" THEN 1 ELSE 0)
           /\ \A s \in (DOMAIN products) \ {slot} : products[s] = pre_products[s]

StockCountsCommitsWitness ==
    /\ outcome = "Success"
    /\ pre_products[slot].stock = 1
    /\ products[slot].stock = 0
    /\ buy(products[slot]) = products[slot]

\* C19: every product of the catalogue has a price above 0 and a stock of at
\* least 0, whatever was loaded, set up and bought; a line of Goods.txt with
\* a price of 0 or less or a negative stock has put no product in the
\* catalogue
CatalogueValid ==
    /\ \A s \in DOMAIN products :
           /\ products[s].name # ""
           /\ products[s].price > 0
           /\ products[s].stock >= 0
    /\ \A s \in DOMAIN goods_file :
           (goods_file[s].price <= 0 \/ goods_file[s].stock < 0) =>
               s \notin DOMAIN products

CatalogueValidWitness ==
    /\ last_input = "slot_skipped"
    /\ products = EmptyDict
    /\ goods_file = EmptyDict
    /\ FaceValue(cash) > 0

(* ------------------------- claims on the files ------------------------- *)
\* C20: a reader of Goods.txt and Wallet.txt sees the stock of the product
\* of a purchase one lower than before the purchase exactly when it sees the
\* ledger of before plus the payment less the change
NoPartialCommitObservable ==
    LET seen_products == load_goods(goods_file)
        seen_cash == load_wallet(wallet_file)
    IN  (slot \in DOMAIN pre_products /\ slot \in DOMAIN seen_products) =>
            LET decremented ==
                    seen_products[slot].stock = pre_products[slot].stock - 1
                absorbed ==
                    /\ seen_cash # pre_cash
                    /\ seen_cash = Settled(pre_cash, inserted, change_detail)
            IN  decremented <=> absorbed

====
